---- MODULE Spec2Model ----
(***************************************************************************)
(* KappaLink (apollo-link-kappa): the link that routes the fields of a     *)
(* GraphQL operation carrying the @kappa directive to the methods and      *)
(* event emitters of kappa views.                                          *)
(*                                                                         *)
(* The repository holds two builds of the link: src/src/link.js and the    *)
(* copy in src/unnamed/part_000.  They differ in setTypename (the second   *)
(* assigns __typename in place) and in the context keys request() sets;    *)
(* the variable `build` says which one runs.                               *)
(***************************************************************************)
EXTENDS Naturals, Sequences, FiniteSets, TLC

(***************************************************************************)
(* Bounds of the model.                                                    *)
(***************************************************************************)
\* Longest array handed to setTypename.
MaxLen == 2
\* Most Field nodes in a document.
MaxFields == 2
\* Most subscribe() calls on what one request() returned.
MaxSubscribes == 2
\* Most events the view store emits.
MaxEvents == 2
\* Most links of one configuration an operation passes through in a row.
MaxChain == 3

(***************************************************************************)
(* JavaScript strings are sequences of one-character strings, so that      *)
(* charAt, toUpperCase and slice are computed and not assumed.             *)
(***************************************************************************)
toUpperCase(c) ==
  CASE c = "a" -> "A" [] c = "c" -> "C" [] c = "d" -> "D" [] c = "e" -> "E"
    [] c = "i" -> "I" [] c = "l" -> "L" [] c = "m" -> "M" [] c = "n" -> "N"
    [] c = "o" -> "O" [] c = "q" -> "Q" [] c = "r" -> "R" [] c = "s" -> "S"
    [] c = "t" -> "T" [] c = "u" -> "U" [] c = "y" -> "Y"
    [] OTHER -> c

\* A field name taken as the type name as it is.
uncapitalized(str) == str

\* str.charAt(0).toUpperCase() + str.slice(1); charAt(0) of '' is ''.
capitalizeFirstLetter(str) ==
  IF str = <<>> THEN <<>> ELSE <<toUpperCase(Head(str))>> \o Tail(str)

(***************************************************************************)
(* JavaScript values, tagged by their type.                                *)
(***************************************************************************)
Undefined == [t |-> "undefined"]
Null == [t |-> "null"]
Str(s) == [t |-> "string", s |-> s]
Num(n) == [t |-> "number", n |-> n]
\* A plain object: f maps its own keys (strings) to values.
Obj(f) == [t |-> "object", f |-> f]
\* An array: e is the sequence of its elements.
Arr(e) == [t |-> "array", e |-> e]
\* The completion of a call that threw (a TypeError).
Threw == [t |-> "throw"]

\* ToBoolean(v), as `!v`, `a || b` and `if (v)` compute it.
Truthy(v) ==
  CASE v.t = "undefined" -> FALSE
    [] v.t = "null" -> FALSE
    [] v.t = "string" -> v.s # <<>>
    [] v.t = "number" -> v.n # 0
    [] OTHER -> TRUE

\* typeof v === 'object' (null included, as in JavaScript).
IsObjectType(v) == v.t \in {"object", "array", "null"}

\* v[key] for a value that is not null or undefined.
Get(v, key) ==
  IF v.t = "object" /\ key \in DOMAIN v.f THEN v.f[key] ELSE Undefined

\* Whether key is an own property of v.
HasOwn(v, key) == v.t = "object" /\ key \in DOMAIN v.f

\* { ...v, [key]: x } for an object v, and v[key] = x on the object itself.
Put(v, key, x) ==
  Obj([k \in DOMAIN v.f \cup {key} |-> IF k = key THEN x ELSE v.f[k]])

TYPENAME == <<"_", "_", "t", "y", "p", "e", "n", "a", "m", "e">>
ID == <<"i", "d">>

EmptyObject == Obj([k \in {} |-> Undefined])

(***************************************************************************)
(* setTypename, src/src/link.js: copies.                                   *)
(***************************************************************************)
\* An element mapped to { __typename: capitalizeFirstLetter(fieldName) }
\* alone, the spread of the item left out.
TypenameWithoutItem(item, fieldName) ==
  Put(EmptyObject, TYPENAME, Str(capitalizeFirstLetter(fieldName)))

\* { __typename: capitalizeFirstLetter(fieldName), ...item }: the spread
\* comes second, so an own __typename of item wins; spreading null or a
\* primitive other than a string adds no key.
SpreadItemOverTypename(item, fieldName) ==
  IF item.t = "object" /\ TYPENAME \in DOMAIN item.f
    THEN item
    ELSE IF item.t = "object"
      THEN Put(item, TYPENAME, Str(capitalizeFirstLetter(fieldName)))
      ELSE Put(EmptyObject, TYPENAME, Str(capitalizeFirstLetter(fieldName)))

setTypename(data, fieldName) ==
  IF Truthy(data) /\ IsObjectType(data) /\ ~Truthy(Get(data, TYPENAME))
    THEN IF data.t = "array"
      THEN Arr([i \in 1..Len(data.e) |-> SpreadItemOverTypename(data.e[i], fieldName)])
      ELSE Put(data, TYPENAME, Str(capitalizeFirstLetter(fieldName)))
    ELSE data

(***************************************************************************)
(* setTypename, src/unnamed/part_000: assigns in place.                    *)
(***************************************************************************)
\* item.__typename = ... succeeds on an object; on null or on a primitive it
\* is a TypeError (the file is an ES module, hence strict).
Assignable(item) == item.t = "object"

\* The elements of the array before the first one the assignment throws on.
RECURSIVE AssignablePrefix(_)
AssignablePrefix(e) ==
  IF e = <<>> \/ ~Assignable(Head(e)) THEN 0 ELSE 1 + AssignablePrefix(Tail(e))

\* What the call returns.
setTypename_part_000(data, fieldName) ==
  IF Truthy(data) /\ IsObjectType(data) /\ ~Truthy(Get(data, TYPENAME))
    THEN IF data.t = "array"
      THEN IF AssignablePrefix(data.e) < Len(data.e)
        THEN Threw
        ELSE Arr([i \in 1..Len(data.e) |->
                   Put(data.e[i], TYPENAME, Str(capitalizeFirstLetter(fieldName)))])
      ELSE Put(data, TYPENAME, Str(capitalizeFirstLetter(fieldName)))
    ELSE data

\* What the caller's argument holds once the call has returned or thrown: map
\* walks the elements in order and stops at the one that throws.
setTypenameArgument_part_000(data, fieldName) ==
  IF Truthy(data) /\ IsObjectType(data) /\ ~Truthy(Get(data, TYPENAME))
    THEN IF data.t = "array"
      THEN Arr([i \in 1..Len(data.e) |->
                 IF i <= AssignablePrefix(data.e)
                   THEN Put(data.e[i], TYPENAME, Str(capitalizeFirstLetter(fieldName)))
                   ELSE data.e[i]])
      ELSE Put(data, TYPENAME, Str(capitalizeFirstLetter(fieldName)))
    ELSE data

\* src/src/link.js never writes to its argument.
setTypenameArgument(data, fieldName) == data

Builds == {"link.js", "part_000"}

\* setTypename of the build that runs.
SetTypenameOf(b, data, fieldName) ==
  IF b = "link.js" THEN setTypename(data, fieldName)
                   ELSE setTypename_part_000(data, fieldName)

SetTypenameArgumentOf(b, data, fieldName) ==
  IF b = "link.js" THEN setTypenameArgument(data, fieldName)
                   ELSE setTypenameArgument_part_000(data, fieldName)

(***************************************************************************)
(* Documents.  A document is its main definition: the operation keyword    *)
(* and the Field nodes in pre-order (depth 0: a root field; depth 1: a     *)
(* field in the selection set of the nearest root field before it).  A     *)
(* @kappa directive may also sit on a node that is no Field (a fragment    *)
(* spread, an inline fragment).                                            *)
(***************************************************************************)
\* The directives of a Field node, as far as @kappa goes.
NoDirective == [d |-> "none"]
\* @kappa with no arguments.
BareKappa == [d |-> "bare"]
\* @kappa(view: v, method: m) in a query or mutation, @kappa(view: v, event: m)
\* in a subscription.
Kappa(v, m) == [d |-> "args", view |-> v, member |-> m]

\* args: the field's own arguments, null when it has none.
FieldNode(name, resultKey, args, directive, depth) ==
  [name |-> name, resultKey |-> resultKey, args |-> args, kappa |-> directive,
   depth |-> depth]

Document(operation, fields, onNonField) ==
  [operation |-> operation, fields |-> fields, kappaOnNonField |-> onNonField]

QUERY == <<"q", "u", "e", "r", "y">>
MUTATION == <<"m", "u", "t", "a", "t", "i", "o", "n">>
SUBSCRIPTION == <<"s", "u", "b", "s", "c", "r", "i", "p", "t", "i", "o", "n">>
Query == <<"Q", "u", "e", "r", "y">>
Mutation == <<"M", "u", "t", "a", "t", "i", "o", "n">>
Subscription == <<"S", "u", "b", "s", "c", "r", "i", "p", "t", "i", "o", "n">>

\* apollo-utilities hasDirectives(['kappa'], document): a Directive node named
\* kappa anywhere in the document.
hasDirectives(doc) ==
  \/ doc.kappaOnNonField
  \/ \E i \in 1..Len(doc.fields) : doc.fields[i].kappa.d # "none"

\* apollo-utilities getDirectiveInfoFromField(field).kappa: the arguments of
\* the directive, null when it has none.
DirectiveInfo(field) ==
  IF field.kappa.d = "args" THEN field.kappa ELSE Null

IsNull(directive) == directive = Null

(***************************************************************************)
(* The resolver map: type name -> field name -> entry.  An entry is a      *)
(* function, a plain value, or (under Subscription) an object that may     *)
(* hold a filter.  A missing type or field reads as undefined.             *)
(***************************************************************************)
NoEntry == [k |-> "undefined"]
FunctionEntry == [k |-> "function"]
ValueEntry(v) == [k |-> "value", v |-> v]
\* { filter } ; filter is the name of a predicate, "none" when the object has none.
FilterEntry(filter) == [k |-> "object", filter |-> filter]

EmptyMap == [k \in {} |-> NoEntry]

\* Whether resolvers[typeName] is defined.
HasType(map, typeName) == typeName \in DOMAIN map

\* resolvers[typeName] || {}.
TypeMapOrEmpty(map, typeName) ==
  IF HasType(map, typeName) THEN map[typeName] ELSE EmptyMap

\* typeMap[fieldName], undefined when the type map has no such field.
EntryOf(typeMap, fieldName) ==
  IF fieldName \in DOMAIN typeMap THEN typeMap[fieldName] ELSE NoEntry

\* ToBoolean of an entry: a function and an object are truthy.
EntryTruthy(entry) ==
  CASE entry.k = "undefined" -> FALSE
    [] entry.k = "value" -> Truthy(entry.v)
    [] OTHER -> TRUE

\* const { filter } = entry || {}: only an object holds one.
FilterOf(entry) == IF entry.k = "object" THEN entry.filter ELSE "none"

(***************************************************************************)
(* State.                                                                  *)
(***************************************************************************)
VARIABLES
  build,        \* which build of the link runs
  resolvers,    \* this.resolvers: [factory, map]; factory: it is a function returning map
  typeDefs,     \* whether this.typeDefs is set
  operation,    \* operation.query
  variables,    \* operation.variables
  context,      \* the operation's context: key -> value
  forward,      \* whether request() is given a forward
  pc,           \* "start" before request(), "requested" after
  result,       \* what request() returned
  calls,        \* how often the link has called into its collaborators
  kappaReady,   \* whether the view store has signalled readiness
  listeners,    \* kappa.api[view].events: <<view, event>> -> the listeners, in order of registration
  emitted,      \* the events the view store has emitted, in order
  subs,         \* the subscribe() calls on what request() returned
  tn,           \* a direct call of setTypename: its argument, field name and completion
  second        \* a second subscription operation requested on the same link

linkVars == <<build, resolvers, typeDefs, operation, variables, context, forward,
              pc, result, calls, kappaReady, listeners, emitted, subs>>
vars == <<linkVars, tn, second>>

(***************************************************************************)
(* request(operation, forward).                                            *)
(***************************************************************************)
\* str.trim(), for the blank this model's strings use.
RECURSIVE TrimStart(_)
TrimStart(str) ==
  IF str # <<>> /\ Head(str) = " " THEN TrimStart(Tail(str)) ELSE str

RECURSIVE TrimEnd(_)
TrimEnd(str) ==
  IF str # <<>> /\ str[Len(str)] = " "
    THEN TrimEnd(SubSeq(str, 1, Len(str) - 1)) ELSE str

trim(str) == TrimEnd(TrimStart(str))

\* parts.join('\n').
RECURSIVE join(_)
join(parts) ==
  IF parts = <<>> THEN <<>>
  ELSE IF Len(parts) = 1 THEN Head(parts)
  ELSE Head(parts) \o <<"\n">> \o join(Tail(parts))

\* typeDefs is a string or an array of strings.
normalizeTypeDefs(defs) ==
  LET list == IF defs.t = "array" THEN defs.e ELSE <<defs>>
  IN  join([i \in 1..Len(list) |-> trim(list[i].s)])

\* { ...ctx, [key]: x }.
CtxPut(ctx, key, x) ==
  [k \in DOMAIN ctx \cup {key} |-> IF k = key THEN x ELSE ctx[k]]

\* The entry request() appends to context.schemas.
SchemaEntry(defs) ==
  [definition |-> normalizeTypeDefs(defs), directives |-> "directive @kappa on FIELD"]

\* A setContext that puts the link's entry in place of the list.
WithSchemasReplaced(ctx, defs) ==
  IF Truthy(defs) THEN CtxPut(ctx, "schemas", <<SchemaEntry(defs)>>) ELSE ctx

\* operation.setContext(({ schemas = [] }) => ({ schemas: schemas.concat([...]) })):
\* the returned object is merged into the context.
WithSchemas(ctx, defs) ==
  IF Truthy(defs)
    THEN CtxPut(ctx, "schemas",
                (IF "schemas" \in DOMAIN ctx THEN ctx["schemas"] ELSE <<>>)
                  \o <<SchemaEntry(defs)>>)
    ELSE ctx

\* operation.setContext(prevContext => ({ ...prevContext, kappa })); part_000
\* sets framework too.
WithKappa(b, ctx) ==
  IF b = "link.js"
    THEN CtxPut(ctx, "kappa", "this.kappa")
    ELSE CtxPut(CtxPut(ctx, "kappa", "this._kappa"), "framework", "this._framework")

\* What request() returns.
ForwardObservable == [t |-> "observable", from |-> "forward"]
QueryObservable(type) == [t |-> "observable", from |-> "runQuery", type |-> type]
SubscriptionHandle(name, resolver) ==
  [t |-> "subscription", name |-> name, resolver |-> resolver]

\* The resolver runSubscription builds for a field with @kappa(view, event).
KappaResolver(directive, filter) ==
  [k |-> "kappa", view |-> directive.view, event |-> directive.member, filter |-> filter]

\* A visit that does not BREAK: the last Field node with a directive named
\* kappa is kept; 0 when there is none.
LastKappaField(doc) ==
  LET annotated == {i \in 1..Len(doc.fields) : doc.fields[i].kappa.d # "none"}
  IN  IF annotated = {} THEN 0
      ELSE CHOOSE i \in annotated : \A m \in annotated : m <= i

\* visit(operation.query, { Field(node) { ... return BREAK } }): the first
\* Field node, in pre-order, with a directive named kappa; 0 when there is none.
RECURSIVE FirstKappaFieldFrom(_, _)
FirstKappaFieldFrom(fields, i) ==
  IF i > Len(fields) THEN 0
  ELSE IF fields[i].kappa.d # "none" THEN i
  ELSE FirstKappaFieldFrom(fields, i + 1)

FirstKappaField(doc) == FirstKappaFieldFrom(doc.fields, 1)

\* runSubscription: what it returns and what it calls on the way.
runSubscription(type, map, doc, fwd) ==
  LET subscriptionResolvers == TypeMapOrEmpty(map, type)
      i == FirstKappaField(doc)
  IN  IF i = 0 /\ fwd
        THEN [ret |-> ForwardObservable, forwarded |-> TRUE, warned |-> FALSE]
      ELSE IF i = 0
        \* field.name of null
        THEN [ret |-> Threw, forwarded |-> FALSE, warned |-> FALSE]
      ELSE
        LET field == doc.fields[i]
            name == field.name
            directive == DirectiveInfo(field)
            entry == EntryOf(subscriptionResolvers, name)
            resolver == IF ~IsNull(directive)
                          THEN KappaResolver(directive, FilterOf(entry))
                          ELSE entry
        IN  [ret |-> SubscriptionHandle(name, resolver),
             forwarded |-> FALSE,
             warned |-> ~(resolver.k = "kappa" \/ EntryTruthy(resolver))]

\* The counters of the calls the link makes.
NoCalls ==
  [factory |-> 0,          \* this.resolvers()
   forward |-> 0,          \* forward(operation)
   runQuery |-> 0,
   runSubscription |-> 0,
   ready |-> 0,            \* kappa.ready(callback)
   graphql |-> 0,          \* graphql(resolver, ...)
   viewMethod |-> 0,       \* kappa.api[view][method](args)
   resolverFunction |-> 0, \* a function of the resolver map
   consoleError |-> 0,
   consoleWarn |-> 0]

Bump(c, key, by) == [c EXCEPT ![key] = @ + by]

\* capitalizeFirstLetter(def.operation || 'Query').
OperationType(doc) ==
  capitalizeFirstLetter(IF Truthy(doc.operation) THEN doc.operation.s ELSE Query)

\* A request() without the test of lines 80-82: every operation is taken as
\* the link's own.
requestWithoutTest(map, isFactory, doc, fwd) ==
  LET type == OperationType(doc)
      c0 == Bump(NoCalls, "factory", IF isFactory THEN 1 ELSE 0)
  IN  IF type \in {Mutation, Query}
        THEN [ret |-> QueryObservable(type), calls |-> Bump(c0, "runQuery", 1)]
      ELSE IF type = Subscription
        THEN [ret |-> runSubscription(type, map, doc, fwd).ret,
              calls |-> Bump(c0, "runSubscription", 1)]
      ELSE [ret |-> Undefined, calls |-> Bump(c0, "consoleError", 1)]

\* request(): the value it returns and the calls it makes after the context
\* is set.
request(map, isFactory, doc, fwd) ==
  IF ~hasDirectives(doc)
    THEN [ret |-> IF fwd THEN ForwardObservable ELSE Undefined,
          calls |-> Bump(NoCalls, "forward", IF fwd THEN 1 ELSE 0)]
    ELSE
      LET type == OperationType(doc)
          c0 == Bump(NoCalls, "factory", IF isFactory THEN 1 ELSE 0)
      IN  IF type \in {Mutation, Query}
            THEN [ret |-> QueryObservable(type), calls |-> Bump(c0, "runQuery", 1)]
          ELSE IF type = Subscription
            THEN LET r == runSubscription(type, map, doc, fwd)
                 IN  [ret |-> r.ret,
                      calls |-> Bump(Bump(Bump(c0, "runSubscription", 1),
                                          "forward", IF r.forwarded THEN 1 ELSE 0),
                                     "consoleWarn", IF r.warned THEN 1 ELSE 0)]
          ELSE [ret |-> Undefined, calls |-> Bump(c0, "consoleError", 1)]

Request ==
  /\ pc = "start"
  /\ LET r == request(resolvers.map, resolvers.factory, operation, forward)
     IN  /\ result' = r.ret
         /\ calls' = r.calls
  /\ context' = WithKappa(build, WithSchemas(context, typeDefs))
  /\ pc' = "requested"
  /\ UNCHANGED <<build, resolvers, typeDefs, operation, variables, forward,
                 kappaReady, listeners, emitted, subs, tn, second>>

(***************************************************************************)
(* The view store (kappa): the readiness gate and the event emitters.      *)
(***************************************************************************)
Views == {"items", "logs"}
Members == {"added"}
Pairs == Views \X Members

SubIds == 1..MaxSubscribes

\* kappa.api[view].events.on(event, onEvent): appended after the others.
on(ls, pair, listener) == [ls EXCEPT ![pair] = Append(@, listener)]

\* The listeners of one event without the last registration of `listener`.
RECURSIVE RemoveLast(_, _)
RemoveLast(seq, listener) ==
  IF seq = <<>> THEN <<>>
  ELSE IF seq[Len(seq)] = listener THEN SubSeq(seq, 1, Len(seq) - 1)
  ELSE Append(RemoveLast(SubSeq(seq, 1, Len(seq) - 1), listener), seq[Len(seq)])

\* An emitter whose removeListener drops the listener registered last,
\* whichever it is.
removeListenerAny(ls, pair, listener) ==
  [ls EXCEPT ![pair] = IF @ = <<>> THEN <<>> ELSE SubSeq(@, 1, Len(@) - 1)]

\* kappa.api[view].events.removeListener(event, onEvent): no effect when
\* onEvent is not registered.
removeListener(ls, pair, listener) == [ls EXCEPT ![pair] = RemoveLast(@, listener)]

\* Whether listener s is registered for pair.
Registered(ls, pair, s) == \E i \in 1..Len(ls[pair]) : ls[pair][i] = s

(***************************************************************************)
(* The filters a Subscription entry may hold: (data, args) -> boolean.     *)
(***************************************************************************)
Filters == {"accept", "reject", "sameId"}

ApplyFilter(filter, data, args) ==
  CASE filter = "accept" -> TRUE
    [] filter = "reject" -> FALSE
    [] filter = "sameId" -> data.t = "object" /\ Get(data, ID) = Get(args, ID)

(***************************************************************************)
(* One subscribe() call: on the handle runSubscription returned, or on the *)
(* Observable runQuery returned.                                           *)
(***************************************************************************)
\* What the observer is told.
NextNotice(data) == [k |-> "next", data |-> data]
CompleteNotice == [k |-> "complete"]
ErrorNotice == [k |-> "error"]

\* st: "unused", "awaiting" (kappa.ready called, callback not yet run),
\*     "active" (callback has run), "thrown" (callback threw).
\* unsubscribe: the closure variable: "undefined", "teardown" (the function
\*     the @kappa resolver returned), "custom" (what a resolver-map function
\*     returned).
\* log: the observer's notifications, in order.
\* unsubscribed: the handle.unsubscribe() calls so far: "never"; "early" (only
\*     before the callback ran); "once" (one call since the callback ran);
\*     "again" (two or more since the callback ran).
\* tasks: the resolver calls of a query, see below.
TaskKeys == (1..MaxFields) \X (0..MaxLen)

\* One call of the field resolver: for field i on root value number j (0: the
\* root object or the parent's object, j > 0: element j of the parent's array).
\* st: "idle" (not called), "view" (awaiting kappa.api[view][method]),
\*     "function" (awaiting a resolver-map function), "done", "rejected".
\* root: the rootValue it was called with.  resolved: what the awaited call
\* resolved with.  value: what the resolver returned.
IdleTask == [st |-> "idle", root |-> Undefined, resolved |-> Undefined, value |-> Undefined]

NewSub ==
  [st |-> "unused", unsubscribe |-> "undefined", log |-> <<>>, unsubscribed |-> "never",
   tasks |-> [key \in TaskKeys |-> IdleTask]]

\* Subscriptions are numbered in the order of the subscribe() calls.
NextUnused(s) ==
  /\ subs[s].st = "unused"
  /\ \A r \in SubIds : r < s => subs[r].st # "unused"

\* A subscribe(observer) that does not wait for kappa.ready: the listener is
\* registered at once.
SubscribeSubscriptionAtOnce(s) ==
  /\ pc = "requested"
  /\ result.t = "subscription"
  /\ NextUnused(s)
  /\ subs' = [subs EXCEPT ![s].st = "awaiting"]
  /\ calls' = Bump(calls, "ready", 1)
  /\ listeners' = IF result.resolver.k = "kappa"
                    THEN on(listeners, <<result.resolver.view, result.resolver.event>>, s)
                    ELSE listeners
  /\ UNCHANGED <<build, resolvers, typeDefs, operation, variables, context, forward,
                 pc, result, kappaReady, emitted, tn, second>>

\* subscribe(observer) on the handle: kappa.ready(callback), and the handle
\* with unsubscribe() is returned.
SubscribeSubscription(s) ==
  /\ pc = "requested"
  /\ result.t = "subscription"
  /\ NextUnused(s)
  /\ subs' = [subs EXCEPT ![s].st = "awaiting"]
  /\ calls' = Bump(calls, "ready", 1)
  /\ UNCHANGED <<build, resolvers, typeDefs, operation, variables, context, forward,
                 pc, result, kappaReady, listeners, emitted, tn, second>>

\* The view store signals readiness, once.
BecomeReady ==
  /\ ~kappaReady
  /\ kappaReady' = TRUE
  /\ UNCHANGED <<build, resolvers, typeDefs, operation, variables, context, forward,
                 pc, result, calls, listeners, emitted, subs, tn, second>>

\* The callback given to kappa.ready runs:
\*   unsubscribe = resolver && resolver({}, operation.variables, { next, error }).
ReadyCallbackSubscription(s) ==
  /\ kappaReady
  /\ result.t = "subscription"
  /\ subs[s].st = "awaiting"
  /\ LET resolver == result.resolver
     IN  IF resolver.k = "kappa"
           THEN /\ listeners' = on(listeners, <<resolver.view, resolver.event>>, s)
                /\ subs' = [subs EXCEPT ![s].st = "active", ![s].unsubscribe = "teardown"]
         ELSE IF ~EntryTruthy(resolver)
           THEN /\ subs' = [subs EXCEPT ![s].st = "active"]
                /\ UNCHANGED listeners
         ELSE IF resolver.k = "function"
           \* a resolver-map function: it may return a teardown function
           THEN /\ \E returned \in {"custom", "undefined"} :
                     subs' = [subs EXCEPT ![s].st = "active", ![s].unsubscribe = returned]
                /\ UNCHANGED listeners
         \* an object or a truthy plain value is not callable
         ELSE /\ subs' = [subs EXCEPT ![s].st = "thrown"]
              /\ UNCHANGED listeners
  /\ UNCHANGED <<build, resolvers, typeDefs, operation, variables, context, forward,
                 pc, result, calls, kappaReady, emitted, tn, second>>

\* A teardown that hands removeListener a function other than the one that
\* was registered: nothing is removed.
UnsubscribeOtherListener(s) ==
  /\ result.t = "subscription"
  /\ subs[s].st # "unused"
  /\ subs' = [subs EXCEPT ![s].unsubscribed =
                IF subs[s].st = "awaiting" THEN "early"
                ELSE IF @ \in {"never", "early"} THEN "once"
                ELSE "again"]
  /\ UNCHANGED <<build, resolvers, typeDefs, operation, variables, context, forward,
                 pc, result, calls, kappaReady, listeners, emitted, tn, second>>

\* handle.unsubscribe(): if (unsubscribe) unsubscribe().  It may be called
\* any number of times.
Unsubscribe(s) ==
  /\ result.t = "subscription"
  /\ subs[s].st # "unused"
  /\ subs' = [subs EXCEPT ![s].unsubscribed =
                IF subs[s].st = "awaiting" THEN "early"
                ELSE IF @ \in {"never", "early"} THEN "once"
                ELSE "again"]
  /\ listeners' =
       IF subs[s].unsubscribe = "teardown"
         THEN removeListener(listeners, <<result.resolver.view, result.resolver.event>>, s)
         ELSE listeners
  /\ UNCHANGED <<build, resolvers, typeDefs, operation, variables, context, forward,
                 pc, result, calls, kappaReady, emitted, tn, second>>

\* The listener of the second operation's subscription, and the handle whose
\* closure a listener belongs to.
SecondId == MaxSubscribes + 1

\* Listeners that all run with the closure of the first operation, once
\* there is one.
HandleOfFirst(s) ==
  IF s = SecondId /\ result.t # "subscription" THEN second.result ELSE result

HandleOf(s) == IF s = SecondId THEN second.result ELSE result

\* No second operation.
NoSecond == [pc |-> "none", operation |-> Undefined, result |-> Undefined, sub |-> NewSub]

\* An onEvent(data) that calls next(data) whatever the filter says.
ForwardsAlways(resolver, data, args) == TRUE

\* onEvent(data) of subscription s: whether it calls next(data).
Forwards(resolver, data, args) ==
  IF resolver.filter # "none" THEN ApplyFilter(resolver.filter, data, args) ELSE TRUE

\* An emit whose next() puts the notification before the earlier ones.
RECURSIVE DeliverPrepending(_, _, _, _, _, _)
DeliverPrepending(ls, data, S, b, handle, args) ==
  IF ls = <<>> THEN [subs |-> S, data |-> data, threw |-> FALSE]
  ELSE
    LET s == Head(ls)
    IN  IF ~Forwards(handle[s].resolver, data, args)
          THEN DeliverPrepending(Tail(ls), data, S, b, handle, args)
        ELSE
          LET nextData == SetTypenameOf(b, data, handle[s].name)
              after == SetTypenameArgumentOf(b, data, handle[s].name)
          IN  IF nextData = Threw
                THEN [subs |-> S, data |-> after, threw |-> TRUE]
                ELSE DeliverPrepending(Tail(ls), after,
                       [S EXCEPT ![s].log =
                          <<NextNotice(Obj((handle[s].name :> nextData)))>> \o @],
                       b, handle, args)

\* emitter.emit(event, data): the listeners run in order of registration, each
\* with the same data object and each with the name and filter of its own
\* closure (handle[s]); a listener that throws ends the emit.
\* Returns [subs, data, threw].
RECURSIVE Deliver(_, _, _, _, _, _)
Deliver(ls, data, S, b, handle, args) ==
  IF ls = <<>> THEN [subs |-> S, data |-> data, threw |-> FALSE]
  ELSE
    LET s == Head(ls)
    IN  IF ~Forwards(handle[s].resolver, data, args)
          THEN Deliver(Tail(ls), data, S, b, handle, args)
        ELSE
          LET nextData == SetTypenameOf(b, data, handle[s].name)
              after == SetTypenameArgumentOf(b, data, handle[s].name)
          IN  IF nextData = Threw
                THEN [subs |-> S, data |-> after, threw |-> TRUE]
                ELSE Deliver(Tail(ls), after,
                             [S EXCEPT ![s].log =
                                Append(@, NextNotice(Obj((handle[s].name :> nextData))))],
                             b, handle, args)

(***************************************************************************)
(* runQuery: the field resolver.                                           *)
(***************************************************************************)
\* What a resolver-map entry that is no function reads as.
EntryValue(entry) ==
  CASE entry.k = "undefined" -> Undefined
    [] entry.k = "value" -> entry.v
    [] OTHER -> EmptyObject

\* a || b.
Or(a, b) == IF Truthy(a) THEN a ELSE b

\* args || undefined, the argument of the view method.
ViewArgs(field) == Or(field.args, Undefined)

\* resolver(fieldName, rootValue = {}, args, context, info) up to its first
\* await: the task it leaves.  type and map are runQuery's type and resolvers.
resolver(type, map, field, rootValue) ==
  LET root == IF rootValue = Undefined THEN EmptyObject ELSE rootValue
      directive == DirectiveInfo(field)
      aliasNeeded == field.resultKey # field.name
      aliasedNode == Get(root, field.resultKey)
      preAliasingNode == Get(root, field.name)
      typename == Get(root, TYPENAME)
      key == IF Truthy(typename) THEN typename.s ELSE type
      done(v) == [st |-> "done", root |-> rootValue, resolved |-> Undefined, value |-> v]
      await(what) == [st |-> what, root |-> rootValue, resolved |-> Undefined,
                      value |-> Undefined]
  IN  IF ~IsNull(directive)
        THEN await("view")
      ELSE IF aliasedNode # Undefined \/ preAliasingNode # Undefined
        THEN done(Or(aliasedNode, preAliasingNode))
      ELSE IF HasType(map, key)
        THEN LET resolve == EntryOf(map[key], field.name)
             IN  IF resolve.k = "function" THEN await("function")
                                          ELSE done(EntryValue(resolve))
      ELSE done(Or(IF aliasNeeded THEN aliasedNode ELSE preAliasingNode, Null))

\* A resolver that passes what the view method resolved with through
\* setTypename, as it does with what a resolver-map function resolved with.
resolverResumeTyped(b, field, task, v) ==
  LET data == SetTypenameOf(b, v, field.name)
  IN  IF data = Threw
        THEN [task EXCEPT !.st = "rejected", !.resolved = v]
        ELSE [task EXCEPT !.st = "done", !.resolved = v, !.value = data]

\* The rest of the resolver once the awaited call resolved with v.
resolverResume(b, field, task, v) ==
  IF task.st = "view"
    THEN [task EXCEPT !.st = "done", !.resolved = v, !.value = v]
    ELSE LET data == SetTypenameOf(b, v, field.name)
         IN  IF data = Threw
               THEN [task EXCEPT !.st = "rejected", !.resolved = v]
               ELSE [task EXCEPT !.st = "done", !.resolved = v, !.value = data]

(***************************************************************************)
(* graphql(resolver, query, {}, context, variables) of graphql-anywhere:   *)
(* the root fields are resolved on {} at once; the fields of a selection   *)
(* set are resolved on the parent's value when it is there, on each        *)
(* element when it is an array, and not at all when it is null.            *)
(***************************************************************************)
RootFields(doc) == {i \in 1..Len(doc.fields) : doc.fields[i].depth = 0}

\* The root field whose selection set holds field k.
Parent(doc, k) ==
  CHOOSE i \in RootFields(doc) :
    i < k /\ \A m \in RootFields(doc) : m < k => m <= i

Children(doc, i) ==
  {k \in 1..Len(doc.fields) : doc.fields[k].depth = 1 /\ Parent(doc, k) = i}

IsNullish(v) == v = Null \/ v = Undefined

\* The root values the selection set of a field is resolved on, by number.
SubRoots(v) ==
  IF IsNullish(v) THEN {}
  ELSE IF v.t = "array" THEN {j \in 1..Len(v.e) : v.e[j] # Null}
  ELSE {0}

SubRoot(v, j) == IF j = 0 THEN v ELSE v.e[j]

\* The tasks after the fields of the selection sets of the root fields that
\* are done, and whose fields are not yet called, are called.
Descend(type, map, doc, tasks) ==
  [key \in TaskKeys |->
    LET k == key[1]
        j == key[2]
    IN  IF k <= Len(doc.fields) /\ doc.fields[k].depth = 1 /\ tasks[key].st = "idle"
           /\ tasks[<<Parent(doc, k), 0>>].st = "done"
           /\ j \in SubRoots(tasks[<<Parent(doc, k), 0>>].value)
          THEN resolver(type, map, doc.fields[k],
                        SubRoot(tasks[<<Parent(doc, k), 0>>].value, j))
          ELSE tasks[key]]

\* The tasks when graphql() has called the resolver of every root field.
Start(type, map, doc) ==
  Descend(type, map, doc,
          [key \in TaskKeys |->
            IF key[1] \in RootFields(doc) /\ key[2] = 0
              THEN resolver(type, map, doc.fields[key[1]], EmptyObject)
              ELSE IdleTask])

Awaiting(tasks, what) == {key \in TaskKeys : tasks[key].st = what}

\* The value graphql() resolves with: each result key of the root selection
\* set with the value of the last field of that key, a field whose resolver
\* returned undefined left out.
Last(S) == CHOOSE i \in S : \A m \in S : m <= i

Selected(doc, tasks, K, j) ==
  LET defined == {k \in K : tasks[<<k, j>>].value # Undefined}
      keys == {doc.fields[k].resultKey : k \in defined}
  IN  Obj([key \in keys |->
            tasks[<<Last({k \in defined : doc.fields[k].resultKey = key}), j>>].value])

FieldData(doc, tasks, i) ==
  LET v == tasks[<<i, 0>>].value
      K == Children(doc, i)
  IN  IF K = {} \/ IsNullish(v) THEN v
      ELSE IF v.t = "array"
        THEN Arr([j \in 1..Len(v.e) |->
                   IF v.e[j] = Null THEN Null ELSE Selected(doc, tasks, K, j)])
      ELSE Selected(doc, tasks, K, 0)

DataOf(doc, tasks) ==
  LET defined == {i \in RootFields(doc) : tasks[<<i, 0>>].value # Undefined}
      keys == {doc.fields[i].resultKey : i \in defined}
  IN  Obj([key \in keys |->
            FieldData(doc, tasks,
                      Last({i \in defined : doc.fields[i].resultKey = key}))])

\* An Observable that tells the observer the data at hand after every step,
\* and completes when nothing is awaited.
SettleStreaming(sub, doc, tasks) ==
  IF Awaiting(tasks, "rejected") # {}
    THEN [sub EXCEPT !.st = "errored", !.tasks = tasks, !.log = Append(@, ErrorNotice)]
  ELSE IF Awaiting(tasks, "view") \cup Awaiting(tasks, "function") = {}
    THEN [sub EXCEPT !.st = "completed", !.tasks = tasks,
                     !.log = @ \o <<NextNotice(DataOf(doc, tasks)), CompleteNotice>>]
  ELSE [sub EXCEPT !.st = "running", !.tasks = tasks,
                   !.log = Append(@, NextNotice(DataOf(doc, tasks)))]

\* The subscription of the Observable after a step of graphql(): a rejected
\* call rejects the whole (Promise.all) and goes to observer.error; when no
\* call is awaited any more, observer.next({ data }) and observer.complete().
Settle(sub, doc, tasks) ==
  IF Awaiting(tasks, "rejected") # {}
    THEN [sub EXCEPT !.st = "errored", !.tasks = tasks, !.log = Append(@, ErrorNotice)]
  ELSE IF Awaiting(tasks, "view") \cup Awaiting(tasks, "function") = {}
    THEN [sub EXCEPT !.st = "completed", !.tasks = tasks,
                     !.log = @ \o <<NextNotice(DataOf(doc, tasks)), CompleteNotice>>]
  ELSE [sub EXCEPT !.st = "running", !.tasks = tasks]

\* The calls Start or Descend made: the tasks that left "idle".
Called(before, after, what) ==
  Cardinality({key \in TaskKeys : before[key].st = "idle" /\ after[key].st = what})

\* A subscribe(observer) that evaluates the resolvers factory again.
SubscribeQueryWithFactory(s) ==
  /\ pc = "requested"
  /\ result.t = "observable" /\ result.from = "runQuery"
  /\ NextUnused(s)
  /\ subs' = [subs EXCEPT ![s].st = "awaiting"]
  /\ calls' = Bump(Bump(calls, "ready", 1), "factory", IF resolvers.factory THEN 1 ELSE 0)
  /\ UNCHANGED <<build, resolvers, typeDefs, operation, variables, context, forward,
                 pc, result, kappaReady, listeners, emitted, tn, second>>

\* subscribe(observer) on the Observable of runQuery: kappa.ready(callback).
SubscribeQuery(s) ==
  /\ pc = "requested"
  /\ result.t = "observable" /\ result.from = "runQuery"
  /\ NextUnused(s)
  /\ subs' = [subs EXCEPT ![s].st = "awaiting"]
  /\ calls' = Bump(calls, "ready", 1)
  /\ UNCHANGED <<build, resolvers, typeDefs, operation, variables, context, forward,
                 pc, result, kappaReady, listeners, emitted, tn, second>>

\* The callback given to kappa.ready runs: graphql(resolver, ...) calls the
\* resolver of every root field; with nothing to await it resolves at once.
ReadyCallbackQuery(s) ==
  /\ kappaReady
  /\ result.t = "observable" /\ result.from = "runQuery"
  /\ subs[s].st = "awaiting"
  /\ LET tasks == Start(result.type, resolvers.map, operation)
     IN  /\ subs' = [subs EXCEPT ![s] = Settle(@, operation, tasks)]
         /\ calls' = Bump(Bump(Bump(calls, "graphql", 1),
                               "viewMethod", Called(subs[s].tasks, tasks, "view")),
                          "resolverFunction", Called(subs[s].tasks, tasks, "function"))
  /\ UNCHANGED <<build, resolvers, typeDefs, operation, variables, context, forward,
                 pc, result, kappaReady, listeners, emitted, tn, second>>

\* An awaited call resolves with v: the resolver resumes, the fields of the
\* selection set are called, and the Observable ends when nothing is awaited.
FieldResolves(s, values) ==
  /\ subs[s].st = "running"
  /\ \E key \in Awaiting(subs[s].tasks, "view") \cup Awaiting(subs[s].tasks, "function"),
        v \in values :
       LET field == operation.fields[key[1]]
           resumed == [subs[s].tasks EXCEPT
                         ![key] = resolverResume(build, field, subs[s].tasks[key], v)]
           tasks == Descend(result.type, resolvers.map, operation, resumed)
       IN  /\ subs' = [subs EXCEPT ![s] = Settle(@, operation, tasks)]
           /\ calls' = Bump(Bump(calls, "viewMethod", Called(resumed, tasks, "view")),
                            "resolverFunction", Called(resumed, tasks, "function"))
  /\ UNCHANGED <<build, resolvers, typeDefs, operation, variables, context, forward,
                 pc, result, kappaReady, listeners, emitted, tn, second>>

\* An awaited call rejects.
FieldRejects(s) ==
  /\ subs[s].st = "running"
  /\ \E key \in Awaiting(subs[s].tasks, "view") \cup Awaiting(subs[s].tasks, "function") :
       subs' = [subs EXCEPT ![s] =
                  Settle(@, operation, [subs[s].tasks EXCEPT ![key].st = "rejected"])]
  /\ UNCHANGED <<build, resolvers, typeDefs, operation, variables, context, forward,
                 pc, result, calls, kappaReady, listeners, emitted, tn, second>>

\* The view store emits an event.
NoEvent == [n |-> 0, pair |-> <<"", "">>, data |-> Undefined, threw |-> FALSE]

EmitEvent(payloads) ==
  /\ emitted.n < MaxEvents
  /\ \E pair \in Pairs, data \in payloads :
       LET r == Deliver(listeners[pair], data, (SecondId :> second.sub) @@ subs, build,
                        [s \in SubIds \cup {SecondId} |-> HandleOf(s)], variables)
       IN  /\ subs' = [s \in SubIds |-> r.subs[s]]
           /\ second' = [second EXCEPT !.sub = r.subs[SecondId]]
           /\ emitted' = [n |-> emitted.n + 1, pair |-> pair, data |-> data,
                          threw |-> r.threw]
  /\ UNCHANGED <<build, resolvers, typeDefs, operation, variables, context, forward,
                 pc, result, calls, kappaReady, listeners, tn>>

(***************************************************************************)
(* Inputs.                                                                 *)
(***************************************************************************)
ON_ITEM == <<"o", "n", "I", "t", "e", "m">>
ITEMS == <<"i", "t", "e", "m", "s">>
ALIAS == <<"a">>
X1 == <<"x", "1">>
X2 == <<"x", "2">>
ITEM == <<"I", "t", "e", "m">>

Record1(k, v) == Obj((k :> v))
Record2(k1, v1, k2, v2) == Obj((k1 :> v1) @@ (k2 :> v2))

\* operation.variables, the args of a subscription's filter.
Variables == Record1(ID, Str(X1))

NoTn == [st |-> "idle", data |-> Undefined, fieldName |-> <<>>, argument |-> Undefined,
         ret |-> Undefined]

InitLink(builds, factories, maps, defs, docs, contexts, forwards) ==
  /\ build \in builds
  /\ resolvers \in [factory : factories, map : maps]
  /\ typeDefs \in defs
  /\ operation \in docs
  /\ variables = Variables
  /\ context \in contexts
  /\ forward \in forwards
  /\ pc = "start"
  /\ result = Undefined
  /\ calls = NoCalls
  /\ kappaReady = FALSE
  /\ listeners = [pair \in Pairs |-> <<>>]
  /\ emitted = NoEvent
  /\ subs = [s \in SubIds |-> NewSub]
  /\ second = NoSecond

\* Field nodes: every choice of name, result key (the name itself or an
\* alias), arguments, directive and depth.
FieldNodes(names, aliases, args, directives, depths) ==
  {FieldNode(n, k, a, d, dp) :
     n \in names, k \in aliases, a \in args, d \in directives, dp \in depths}

\* A field is its own result key unless it has an alias.
Unaliased(nodes) == {[f EXCEPT !.resultKey = f.name] : f \in nodes}

\* Documents of a root field and up to MaxFields - 1 more fields.
Documents(operations, first, more, onNonField) ==
  {Document(op, <<f>> \o rest, nf) :
     op \in operations,
     f \in first,
     rest \in UNION {[1..n -> more] : n \in 0..(MaxFields - 1)},
     nf \in onNonField}

FOO == <<"f", "o", "o">>

EmptyContext == [k \in {} |-> ""]
\* A context an earlier link has put a schema in.
EarlierContext ==
  ("schemas" :> <<[definition |-> <<"s">>, directives |-> "directive @other on FIELD"]>>)
    @@ ("headers" :> "h")

TypeDefs == Str(<<" ", "t", " ">>)

\* Resolver maps: Query and Mutation resolve items with a function, or the
\* map knows no type at all; Subscription.onItem holds a filter or nothing.
QueryMap(entry) == (ITEMS :> entry)
SubscriptionMap(entry) == (ON_ITEM :> entry)
ResolverMap(q, s) ==
  (Query :> QueryMap(q)) @@ (Mutation :> QueryMap(q)) @@ (Subscription :> SubscriptionMap(s))

(***************************************************************************)
(* The whole link on small inputs.                                         *)
(***************************************************************************)
Payloads == {Record1(ID, Str(X1))}
Results == {Null, Record1(ID, Str(X1))}

\* Query.items is a function.
MainMap == ResolverMap(FunctionEntry, FilterEntry("sameId"))
\* Query.items is the plain value null.
PlainMap == ResolverMap(ValueEntry(Null), FilterEntry("sameId"))

Operations == {Str(QUERY), Str(MUTATION), Str(SUBSCRIPTION), Undefined, Str(FOO)}

\* Every operation keyword and up to MaxFields fields, none with @kappa; with
\* and without @kappa on a node that is no field.
PlainDocuments ==
  Documents(Operations,
            Unaliased(FieldNodes({ON_ITEM}, {ALIAS}, {Null}, {NoDirective}, {0})),
            Unaliased(FieldNodes({ITEMS}, {ALIAS}, {Null}, {NoDirective}, {0})),
            BOOLEAN)

\* op { onItem @kappa(view: "items", ...: "added") } for every operation
\* keyword, and query { onItem @kappa(...) items }.
AnnotatedDocuments ==
  {Document(op, <<FieldNode(ON_ITEM, ON_ITEM, Null, Kappa("items", "added"), 0)>>, FALSE) :
     op \in Operations}
  \cup {Document(Str(QUERY),
                 <<FieldNode(ON_ITEM, ON_ITEM, Null, Kappa("items", "added"), 0),
                   FieldNode(ITEMS, ITEMS, Null, NoDirective, 0)>>, FALSE)}

\* The documents without an annotated field with and without forward, and the
\* annotated documents; a query and a subscription under part_000 too.
Init ==
  /\ \/ InitLink({"link.js"}, {TRUE}, {PlainMap}, {TypeDefs}, PlainDocuments,
                 {EarlierContext}, BOOLEAN)
     \/ InitLink({"link.js"}, {TRUE}, {MainMap}, {TypeDefs}, AnnotatedDocuments,
                 {EarlierContext}, {TRUE})
     \/ InitLink({"part_000"}, {TRUE}, {MainMap}, {TypeDefs},
                 {doc \in AnnotatedDocuments :
                    Len(doc.fields) = 1 /\ doc.operation \in {Str(QUERY), Str(SUBSCRIPTION)}},
                 {EarlierContext}, {TRUE})
  /\ tn = NoTn

Next ==
  \/ Request
  \/ BecomeReady
  \/ \E s \in SubIds : SubscribeSubscription(s)
  \/ \E s \in SubIds : ReadyCallbackSubscription(s)
  \/ \E s \in SubIds : Unsubscribe(s)
  \/ EmitEvent(Payloads)
  \/ \E s \in SubIds : SubscribeQuery(s)
  \/ \E s \in SubIds : ReadyCallbackQuery(s)
  \/ \E s \in SubIds : FieldResolves(s, Results)
  \/ \E s \in SubIds : FieldRejects(s)

Spec == Init /\ [][Next]_vars

(***************************************************************************)
(* Subscriptions on wider documents: up to MaxFields fields, the first     *)
(* with and without @kappa, the others with @kappa on the same event or    *)
(* on another; and a document with a bare @kappa under the resolver maps   *)
(* that tell it apart.                                                     *)
(***************************************************************************)
SameIdMap == (Subscription :> SubscriptionMap(FilterEntry("sameId")))

SubscriptionDocuments ==
  Documents({Str(SUBSCRIPTION)},
            Unaliased(FieldNodes({ON_ITEM}, {ALIAS}, {Null},
                                 {NoDirective, BareKappa, Kappa("items", "added")}, {0})),
            Unaliased(FieldNodes({ITEMS}, {ALIAS}, {Null},
                                 {Kappa("items", "added"), Kappa("logs", "added")}, {0})),
            {FALSE})

\* subscription { onItem @kappa }.
BareDocument == Document(Str(SUBSCRIPTION), <<FieldNode(ON_ITEM, ON_ITEM, Null, BareKappa, 0)>>, FALSE)

\* subscription { onItem @kappa(view: "items", event: "added") }.
AnnotatedDocument ==
  Document(Str(SUBSCRIPTION),
           <<FieldNode(ON_ITEM, ON_ITEM, Null, Kappa("items", "added"), 0)>>, FALSE)

\* The entries of Subscription.onItem a bare @kappa tells apart: none, a
\* function, an object.
BareMaps ==
  {EmptyMap, (Subscription :> SubscriptionMap(FunctionEntry)),
   (Subscription :> SubscriptionMap(FilterEntry("none")))}

InitSubscription ==
  /\ \/ InitLink({"link.js"}, {FALSE}, {SameIdMap}, {Undefined},
                 {doc \in SubscriptionDocuments : hasDirectives(doc)},
                 {EmptyContext}, {TRUE})
     \/ InitLink({"link.js"}, {FALSE}, BareMaps, {Undefined}, {BareDocument},
                 {EmptyContext}, {TRUE})
  /\ tn = NoTn

NextSubscription ==
  \/ Request
  \/ BecomeReady
  \/ \E s \in SubIds : SubscribeSubscription(s)
  \/ \E s \in SubIds : ReadyCallbackSubscription(s)
  \/ \E s \in SubIds : Unsubscribe(s)
  \/ EmitEvent(Payloads)

SpecSubscription == InitSubscription /\ [][NextSubscription]_vars

(***************************************************************************)
(* One annotated subscription field under every filter, in both builds.    *)
(***************************************************************************)
\* Payloads of two ids, without and with a __typename.
FilterPayloads ==
  {Record1(ID, Str(X1)), Record2(ID, Str(X2), TYPENAME, Str(ITEM))}

\* Subscription.onItem: no entry, an object without a filter, and an object
\* with each of the filters.
FilterMaps ==
  {EmptyMap}
  \cup {(Subscription :> SubscriptionMap(FilterEntry(f))) : f \in Filters \cup {"none"}}

InitFilter ==
  /\ \/ InitLink({"link.js"}, {FALSE}, FilterMaps, {Undefined}, {AnnotatedDocument},
                 {EmptyContext}, {TRUE})
     \/ InitLink({"part_000"}, {FALSE}, {SameIdMap}, {Undefined}, {AnnotatedDocument},
                 {EmptyContext}, {TRUE})
  /\ tn = NoTn

NextFilter ==
  \/ Request
  \/ BecomeReady
  \/ \E s \in SubIds : SubscribeSubscription(s)
  \/ \E s \in SubIds : ReadyCallbackSubscription(s)
  \/ \E s \in SubIds : Unsubscribe(s)
  \/ EmitEvent(FilterPayloads)

SpecFilter == InitFilter /\ [][NextFilter]_vars

(***************************************************************************)
(* Queries and mutations on wider inputs: a field in the selection set of  *)
(* another, aliases, results with and without a discriminator, and a       *)
(* resolver map with functions and plain values.                           *)
(***************************************************************************)
QueryResults ==
  {Null,
   Record1(ID, Str(X1)),
   Record2(ID, Str(X2), TYPENAME, Str(ITEM)),
   Arr(<<Record1(ID, Str(X1)), Record1(ID, Str(X1))>>)}

\* Query.items and Query.id are functions, Item.id is the plain value null.
QueryResolverMap ==
  (Query :> ((ITEMS :> FunctionEntry) @@ (ID :> FunctionEntry)))
    @@ (Mutation :> ((ITEMS :> FunctionEntry) @@ (ID :> FunctionEntry)))
    @@ (ITEM :> (ID :> ValueEntry(Null)))

\* query { items ... } with and without arguments and @kappa, followed by
\* fields id of its selection set, with and without an alias and @kappa, or
\* by the root field a: id @kappa(...).
QueryDocuments ==
  Documents({Str(QUERY)},
            Unaliased(FieldNodes({ITEMS}, {ALIAS}, {Null, Variables},
                                 {NoDirective, Kappa("items", "added")}, {0})),
            FieldNodes({ID}, {ID, ALIAS}, {Null},
                       {NoDirective, Kappa("logs", "added")}, {1})
              \cup {FieldNode(ID, ALIAS, Null, Kappa("logs", "added"), 0)},
            {FALSE})

\* mutation { items @kappa(view: "items", method: "added") }.
MutationDocument ==
  Document(Str(MUTATION), <<FieldNode(ITEMS, ITEMS, Null, Kappa("items", "added"), 0)>>, FALSE)

\* One subscription of the Observable; the whole link above has several.
OneSubscribe == {s \in SubIds : s = 1}

InitQuery ==
  /\ InitLink({"link.js"}, {FALSE}, {QueryResolverMap, EmptyMap}, {Undefined},
              {doc \in QueryDocuments : hasDirectives(doc)} \cup {MutationDocument},
              {EmptyContext}, {TRUE})
  /\ tn = NoTn

NextQuery ==
  \/ Request
  \/ BecomeReady
  \/ \E s \in OneSubscribe : SubscribeQuery(s)
  \/ \E s \in OneSubscribe : ReadyCallbackQuery(s)
  \/ \E s \in OneSubscribe : FieldResolves(s, QueryResults)
  \/ \E s \in OneSubscribe : FieldRejects(s)

SpecQuery == InitQuery /\ [][NextQuery]_vars

(***************************************************************************)
(* setTypename on its own: one call on every input of the bounded sets.    *)
(***************************************************************************)
\* The argument after the call is kept beside the argument as it was passed.
CallSetTypename ==
  /\ tn.st = "idle"
  /\ tn' = [tn EXCEPT !.st = "returned",
                      !.ret = SetTypenameOf(build, tn.data, tn.fieldName),
                      !.argument = SetTypenameArgumentOf(build, tn.data, tn.fieldName)]
  /\ UNCHANGED <<linkVars, second>>

\* Objects with and without an id and a __typename ('Item', or the empty string).
TnObjects ==
  {Obj(f) : f \in UNION {[keys -> {Str(X1)}] : keys \in SUBSET {ID}}}
  \cup {Put(Obj(f), TYPENAME, Str(name)) :
          f \in UNION {[keys -> {Str(X1)}] : keys \in SUBSET {ID}}, name \in {ITEM, <<>>}}

TnElements == TnObjects \cup {Null, Num(1)}

TnArrays == {Arr(e) : e \in UNION {[1..n -> TnElements] : n \in 0..MaxLen}}

TnInputs == {Undefined, Null, Str(X1), Num(0)} \cup TnObjects \cup TnArrays

InitTypename ==
  /\ InitLink(Builds, {TRUE}, {EmptyMap}, {Undefined},
              Documents({Str(QUERY)},
                        Unaliased(FieldNodes({ITEMS}, {ALIAS}, {Null}, {NoDirective}, {0})),
                        {}, {FALSE}),
              {EmptyContext}, {FALSE})
  /\ tn \in [st : {"idle"}, data : TnInputs, fieldName : {ON_ITEM, ITEMS, ITEM},
             argument : {Undefined}, ret : {Undefined}]

NextTypename == CallSetTypename

SpecTypename == InitTypename /\ [][NextTypename]_vars

\* A type discriminator that is there: an own __typename that is not empty.
HasTypename(v) == v.t = "object" /\ Truthy(Get(v, TYPENAME))

\* C7: setTypename never overwrites a type discriminator: an object that has
\* a __typename keeps it, each element of an array that has one keeps it, and
\* an object or element without one gets capitalizeFirstLetter(fieldName).
C7_NeverOverwrites ==
  tn.st = "returned" =>
    /\ HasTypename(tn.data) => Get(tn.ret, TYPENAME) = Get(tn.data, TYPENAME)
    /\ tn.data.t = "object" /\ ~HasTypename(tn.data)
         => Get(tn.ret, TYPENAME) = Str(capitalizeFirstLetter(tn.fieldName))
    /\ tn.data.t = "array" /\ tn.ret.t = "array" =>
         /\ Len(tn.ret.e) = Len(tn.data.e)
         /\ \A i \in 1..Len(tn.data.e) :
              /\ HasTypename(tn.data.e[i])
                   => Get(tn.ret.e[i], TYPENAME) = Get(tn.data.e[i], TYPENAME)
              /\ ~HasOwn(tn.data.e[i], TYPENAME)
                   => Get(tn.ret.e[i], TYPENAME) = Str(capitalizeFirstLetter(tn.fieldName))

\* C8: setTypename does not mutate its input: once it has returned, the
\* object or array it was given, and every element of that array, hold what
\* they held when it was called.
C8_InputNotMutated ==
  tn.st = "returned" => tn.argument = tn.data

(***************************************************************************)
(* Properties of the whole link.                                           *)
(***************************************************************************)
\* The @kappa handle of a subscription document: its (view, event).
BoundPair == <<result.resolver.view, result.resolver.event>>

IsKappaHandle == result.t = "subscription" /\ result.resolver.k = "kappa"

\* C1: when unsubscribe() was called before the readiness callback ran, and
\* not since, then after the callback has run no listener of the subscription
\* is registered for the event and the observer has received nothing.
C1_EarlyUnsubscribeHonoured ==
  \A s \in SubIds :
    IsKappaHandle /\ subs[s].unsubscribed = "early" /\ subs[s].st = "active"
      => ~Registered(listeners, BoundPair, s) /\ subs[s].log = <<>>

\* No Directive node named kappa: none on a field, none on any other node.
NoKappaAnywhere(doc) ==
  /\ ~doc.kappaOnNonField
  /\ \A i \in 1..Len(doc.fields) : doc.fields[i].kappa = NoDirective

\* C2: for a document without @kappa, request() returns what forward returns
\* (undefined without forward) and makes no other call: the resolvers factory,
\* runQuery, runSubscription, kappa.ready, graphql, the view methods and the
\* emitters stay untouched, and nothing can be subscribed through the link.
C2_PassThrough ==
  pc = "requested" /\ NoKappaAnywhere(operation) =>
    /\ result = IF forward THEN ForwardObservable ELSE Undefined
    /\ calls = Bump(NoCalls, "forward", IF forward THEN 1 ELSE 0)
    /\ \A pair \in Pairs : listeners[pair] = <<>>
    /\ \A s \in SubIds : subs[s] = NewSub

\* C2 at work: such a document was requested with forward, under a resolvers
\* factory, and the view store is ready and has emitted.
C2_Witness ==
  /\ pc = "requested" /\ NoKappaAnywhere(operation)
  /\ forward /\ resolvers.factory
  /\ result = ForwardObservable
  /\ kappaReady /\ emitted.n > 0

\* C10: before the callback given to kappa.ready has run, nothing runs
\* against the view store: no graphql(), no view method, no resolver-map
\* function, no listener of the subscription, and the observer has been told
\* nothing; with the store not ready, that holds for every subscription.
C10_NothingBeforeReady ==
  /\ \A s \in SubIds :
       subs[s].st \in {"unused", "awaiting"} =>
         /\ subs[s].log = <<>>
         /\ subs[s].unsubscribe = "undefined"
         /\ \A key \in TaskKeys : subs[s].tasks[key] = IdleTask
         /\ \A pair \in Pairs : ~Registered(listeners, pair, s)
  /\ ~kappaReady =>
       /\ calls.graphql = 0 /\ calls.viewMethod = 0 /\ calls.resolverFunction = 0
       /\ \A pair \in Pairs : listeners[pair] = <<>>
       /\ \A s \in SubIds : subs[s].st \in {"unused", "awaiting"}

\* C10 at work: the store has emitted an event that the first subscription,
\* whose callback has run, was told of, and the second, whose callback has not
\* run yet, was not.
C10_Witness ==
  /\ subs[2].st = "awaiting" /\ subs[1].st = "active"
  /\ IsKappaHandle /\ Registered(listeners, BoundPair, 1)
  /\ emitted.n > 0 /\ subs[1].log # <<>> /\ subs[2].log = <<>>

(***************************************************************************)
(* Properties of queries and mutations.                                    *)
(***************************************************************************)
\* The resolver calls of subscription s that are awaited.
Pending(s) == Awaiting(subs[s].tasks, "view") \cup Awaiting(subs[s].tasks, "function")

\* C3: the observer of a query or mutation is told nothing, or next({ data })
\* once and then complete, or error alone; next comes only when every root
\* field was resolved and no resolver call is awaited or has failed, and a
\* failed call leaves error and no data.
C3_OneResultOrError ==
  \A s \in SubIds :
    /\ subs[s].log \in {<<>>, <<ErrorNotice>>,
                        <<NextNotice(DataOf(operation, subs[s].tasks)), CompleteNotice>>}
    /\ subs[s].log # <<>> /\ subs[s].log[1].k = "next" =>
         /\ Pending(s) = {} /\ Awaiting(subs[s].tasks, "rejected") = {}
         /\ \A i \in RootFields(operation) : subs[s].tasks[<<i, 0>>].st = "done"
    /\ Awaiting(subs[s].tasks, "rejected") # {} => subs[s].log = <<ErrorNotice>>
    /\ Pending(s) # {} => subs[s].log \in {<<>>, <<ErrorNotice>>}

\* C3 at work: the result came after two awaited calls had resolved.
C3_Witness ==
  \E s \in SubIds :
    /\ Len(subs[s].log) = 2 /\ subs[s].log[1].k = "next" /\ subs[s].log[2].k = "complete"
    /\ \E k1, k2 \in TaskKeys :
         /\ k1 # k2
         /\ subs[s].tasks[k1].resolved # Undefined
         /\ subs[s].tasks[k2].resolved # Undefined

\* The fields with @kappa(view, method).
ViewFields == {k \in 1..Len(operation.fields) : operation.fields[k].kappa.d = "args"}

\* C6: a call of the resolver for a field with @kappa(view, method) awaits the
\* view method and returns what it resolved with, unchanged, whatever the
\* root value and the resolver map hold; when the method rejects, the observer
\* is told error.
C6_ViewMethodResult ==
  \A s \in SubIds : \A key \in TaskKeys :
    key[1] \in ViewFields =>
      LET task == subs[s].tasks[key]
      IN  /\ task.st \in {"idle", "view", "done", "rejected"}
          /\ task.st = "done" => task.resolved \in QueryResults /\ task.value = task.resolved
          /\ task.st = "rejected" => subs[s].log = <<ErrorNotice>>

\* C6 at work: id @kappa in the selection set of items, called on a parent
\* that holds an id and a __typename the resolver map knows, returned the
\* method's object as it was, without a __typename.
C6_Witness ==
  \E s \in SubIds : \E key \in TaskKeys :
    /\ key[1] \in ViewFields
    /\ operation.fields[key[1]].depth = 1
    /\ LET task == subs[s].tasks[key]
       IN  /\ task.st = "done"
           /\ Get(task.root, ID) = Str(X2)
           /\ Get(task.root, TYPENAME) = Str(ITEM)
           /\ HasType(resolvers.map, ITEM)
           /\ task.value = Record1(ID, Str(X1))

(***************************************************************************)
(* Properties of subscriptions.                                            *)
(***************************************************************************)
ONITEM_TYPE == <<"O", "n", "I", "t", "e", "m">>

\* Whether the filter of the bound field lets payload d through.
Passes(d) ==
  result.resolver.filter = "none" \/ ApplyFilter(result.resolver.filter, d, variables)

\* What the observer is told for payload d.
Emission(d) == NextNotice(Obj((result.name :> SetTypenameOf(build, d, result.name))))

\* C4: when the store emits payload d, an observer whose listener is
\* registered for the event is told { data: { f: setTypename(d, f) } } once if
\* the entry of f has no filter or filter(d, variables) is truthy, and nothing
\* otherwise; so under a filter that is always false it is never told
\* anything.  {id: 'x1'} on onItem gives { onItem: {id: 'x1', __typename:
\* 'OnItem'} }.  No other step tells an observer anything.
C4_FilterDecides ==
  [][\A s \in SubIds :
       IF emitted'.n = emitted.n + 1
            /\ IsKappaHandle /\ Registered(listeners, emitted'.pair, s)
            /\ Passes(emitted'.data)
         THEN /\ subs'[s].log = Append(subs[s].log, Emission(emitted'.data))
              /\ result.resolver.filter # "reject"
              /\ emitted'.data = Record1(ID, Str(X1)) /\ result.name = ON_ITEM =>
                   subs'[s].log[Len(subs'[s].log)].data =
                     Record1(ON_ITEM, Record2(ID, Str(X1), TYPENAME, Str(ONITEM_TYPE)))
         ELSE subs'[s].log = subs[s].log]_vars

\* C4 at work: under the filter that compares ids, of two events the first
\* was passed on and the second, of another id, was not.
C4_Witness ==
  \E s \in SubIds :
    /\ IsKappaHandle /\ result.resolver.filter = "sameId"
    /\ Registered(listeners, BoundPair, s)
    /\ emitted.n = 2 /\ emitted.pair = BoundPair
    /\ emitted.data = Record2(ID, Str(X2), TYPENAME, Str(ITEM))
    /\ subs[s].log = <<NextNotice(Record1(ON_ITEM,
                         Record2(ID, Str(X1), TYPENAME, Str(ONITEM_TYPE))))>>

\* The fields with a directive named kappa.
AnnotatedFields == {i \in 1..Len(operation.fields) : operation.fields[i].kappa.d # "none"}

\* The (view, event) of field i, which has @kappa(view, event).
PairOf(i) == <<operation.fields[i].kappa.view, operation.fields[i].kappa.member>>

\* The annotated fields after the first that have a (view, event).
LaterPairs ==
  {PairOf(i) : i \in {k \in AnnotatedFields :
                        k > FirstKappaFieldFrom(operation.fields, 1)
                        /\ operation.fields[k].kappa.d = "args"}}

TwoAnnotated == Cardinality(AnnotatedFields) >= 2

\* C5 as stated: in a document of two or more annotated fields, an event on
\* the (view, event) of an annotated field after the first never makes an
\* observer be told anything.
C5_LaterPairNeverEmits ==
  [][pc = "requested" /\ TwoAnnotated /\ emitted'.n = emitted.n + 1
       /\ emitted'.pair \in LaterPairs
       => \A s \in SubIds : subs'[s].log = subs[s].log]_vars

\* The first Field node, in pre-order, with a directive named kappa.
FirstAnnotated == CHOOSE i \in AnnotatedFields : \A m \in AnnotatedFields : i <= m

\* How often s is registered, over all events.
Registrations(s) ==
  Cardinality({<<pair, i>> \in Pairs \X (1..MaxSubscribes) :
                 i <= Len(listeners[pair]) /\ listeners[pair][i] = s})

\* C5: in a document of two or more annotated fields the handle is that of
\* the first one: listeners are registered for its (view, event) only (none
\* when it has a bare @kappa), one for each subscription whose callback has
\* run and which is not unsubscribed since, what an observer is told is keyed
\* by its name, and an event on another (view, event) tells no observer
\* anything.
C5_OnlyFirstBound ==
  /\ [](pc = "requested" /\ TwoAnnotated =>
          /\ result.t = "subscription" /\ result.name = operation.fields[FirstAnnotated].name
          /\ \A pair \in Pairs :
               listeners[pair] # <<>> =>
                 /\ operation.fields[FirstAnnotated].kappa.d = "args"
                 /\ pair = PairOf(FirstAnnotated)
          /\ \A s \in SubIds :
               /\ Registrations(s) =
                    IF IsKappaHandle /\ subs[s].st = "active"
                         /\ subs[s].unsubscribed \in {"never", "early"}
                      THEN 1 ELSE 0
               /\ \A n \in 1..Len(subs[s].log) :
                    DOMAIN subs[s].log[n].data.f = {result.name})
  /\ [][pc = "requested" /\ TwoAnnotated /\ emitted'.n = emitted.n + 1
          /\ ~(operation.fields[FirstAnnotated].kappa.d = "args"
               /\ emitted'.pair = PairOf(FirstAnnotated))
          => \A s \in SubIds : subs'[s].log = subs[s].log]_vars

\* C5 at work: of two annotated fields of different events, the first is
\* bound; an event of the second was emitted and the observer was told nothing.
C5_Witness ==
  /\ pc = "requested" /\ TwoAnnotated
  /\ LaterPairs = {<<"logs", "added">>}
  /\ IsKappaHandle /\ BoundPair = <<"items", "added">>
  /\ \E s \in SubIds : Registered(listeners, BoundPair, s) /\ subs[s].log = <<>>
  /\ emitted.n > 0 /\ emitted.pair = <<"logs", "added">>

\* The listeners of every event without those of subscription s.
Without(s) ==
  [pair \in Pairs |-> SelectSeq(listeners[pair], LAMBDA r : r # s)]

\* C9: handle.unsubscribe() of a bound subscription removes its listener
\* and leaves every other listener registered; called again it changes
\* nothing; called before the readiness callback has run it changes nothing
\* and raises no error.
C9_UnsubscribeIdempotent ==
  [][\A s \in SubIds :
       IsKappaHandle /\ Unsubscribe(s) =>
         /\ subs[s].st = "awaiting" => listeners' = listeners /\ subs'[s].st = "awaiting"
         /\ subs[s].st = "active" =>
              /\ listeners' = Without(s)
              /\ subs'[s].st = "active"
         /\ subs[s].unsubscribed \in {"once", "again"} => listeners' = listeners]_vars

\* C9 at work: unsubscribe() was called more than once after binding, and the
\* listener of another subscription is still registered.
C9_Witness ==
  \E s, r \in SubIds :
    /\ s # r /\ IsKappaHandle
    /\ subs[s].unsubscribed = "again"
    /\ ~Registered(listeners, BoundPair, s)
    /\ Registered(listeners, BoundPair, r)

(***************************************************************************)
(* Two subscription operations on one link: each request() builds its own  *)
(* resolver, with its own field name and filter; the emitters are shared.  *)
(***************************************************************************)
\* request(operation2, forward) for the second operation.
RequestSecond ==
  /\ second.pc = "start"
  /\ LET r == request(resolvers.map, resolvers.factory, second.operation, forward)
     IN  /\ second' = [second EXCEPT !.pc = "requested", !.result = r.ret]
         /\ calls' = [k \in DOMAIN calls |-> calls[k] + r.calls[k]]
  /\ UNCHANGED <<build, resolvers, typeDefs, operation, variables, context, forward,
                 pc, result, kappaReady, listeners, emitted, subs, tn>>

\* subscribe(observer) on the second handle.
SubscribeSecond ==
  /\ second.pc = "requested"
  /\ second.result.t = "subscription"
  /\ second.sub.st = "unused"
  /\ second' = [second EXCEPT !.sub.st = "awaiting"]
  /\ calls' = Bump(calls, "ready", 1)
  /\ UNCHANGED <<build, resolvers, typeDefs, operation, variables, context, forward,
                 pc, result, kappaReady, listeners, emitted, subs, tn>>

\* The callback the second subscribe() gave to kappa.ready runs.
ReadyCallbackSecond ==
  /\ kappaReady
  /\ second.sub.st = "awaiting"
  /\ LET secondResolver == second.result.resolver
     IN  IF secondResolver.k = "kappa"
           THEN /\ listeners' = on(listeners, <<secondResolver.view, secondResolver.event>>, SecondId)
                /\ second' = [second EXCEPT !.sub.st = "active",
                                            !.sub.unsubscribe = "teardown"]
         ELSE IF ~EntryTruthy(secondResolver)
           THEN /\ second' = [second EXCEPT !.sub.st = "active"]
                /\ UNCHANGED listeners
         ELSE IF secondResolver.k = "function"
           THEN /\ \E returned \in {"custom", "undefined"} :
                     second' = [second EXCEPT !.sub.st = "active",
                                              !.sub.unsubscribe = returned]
                /\ UNCHANGED listeners
         ELSE /\ second' = [second EXCEPT !.sub.st = "thrown"]
              /\ UNCHANGED listeners
  /\ UNCHANGED <<build, resolvers, typeDefs, operation, variables, context, forward,
                 pc, result, calls, kappaReady, emitted, subs, tn>>

\* unsubscribe() on what the second subscribe() returned.
UnsubscribeSecond ==
  /\ second.sub.st # "unused"
  /\ second' = [second EXCEPT !.sub.unsubscribed =
                  IF second.sub.st = "awaiting" THEN "early"
                  ELSE IF @ \in {"never", "early"} THEN "once"
                  ELSE "again"]
  /\ listeners' =
       IF second.sub.unsubscribe = "teardown"
         THEN removeListener(listeners,
                             <<second.result.resolver.view, second.result.resolver.event>>,
                             SecondId)
         ELSE listeners
  /\ UNCHANGED <<build, resolvers, typeDefs, operation, variables, context, forward,
                 pc, result, calls, kappaReady, emitted, subs, tn>>

\* Subscription.onItem filters by id; Subscription.items has the given filter.
TwoFieldMap(filter) ==
  (Subscription :> ((ON_ITEM :> FilterEntry("sameId")) @@ (ITEMS :> FilterEntry(filter))))

\* subscription { items @kappa(view: v, event: "added") }.
SecondDocument(v) ==
  Document(Str(SUBSCRIPTION), <<FieldNode(ITEMS, ITEMS, Null, Kappa(v, "added"), 0)>>, FALSE)

\* The first operation subscribes to onItem on items/added; the second to
\* items, on the same event or on logs/added, without a filter or with the
\* filter that rejects all.
InitTwo ==
  /\ build = "link.js"
  /\ resolvers \in [factory : {FALSE}, map : {TwoFieldMap(f) : f \in {"none", "reject"}}]
  /\ typeDefs = Undefined
  /\ operation = AnnotatedDocument
  /\ variables = Variables
  /\ context = EmptyContext
  /\ forward = TRUE
  /\ pc = "start"
  /\ result = Undefined
  /\ calls = NoCalls
  /\ kappaReady = FALSE
  /\ listeners = [pair \in Pairs |-> <<>>]
  /\ emitted = NoEvent
  /\ subs = [s \in SubIds |-> NewSub]
  /\ second \in [pc : {"start"}, operation : {SecondDocument(v) : v \in Views},
                 result : {Undefined}, sub : {NewSub}]
  /\ tn = NoTn

NextTwo ==
  \/ Request
  \/ RequestSecond
  \/ BecomeReady
  \/ \E s \in OneSubscribe : SubscribeSubscription(s)
  \/ \E s \in OneSubscribe : ReadyCallbackSubscription(s)
  \/ \E s \in OneSubscribe : Unsubscribe(s)
  \/ SubscribeSecond
  \/ ReadyCallbackSecond
  \/ UnsubscribeSecond
  \/ EmitEvent(FilterPayloads)

SpecTwo == InitTwo /\ [][NextTwo]_vars

\* The handle, the subscription and the listeners of either operation.
SubOf(s) == IF s = SecondId THEN second.sub ELSE subs[s]

BothIds == OneSubscribe \cup {SecondId}

\* The annotated field of the operation s subscribed to.
OwnName(s) ==
  (IF s = SecondId THEN second.operation ELSE operation).fields[1].name

\* What the observer of s is told for payload d: keyed by the field of its
\* own operation.
OwnEmission(s, d) == NextNotice(Obj((OwnName(s) :> setTypename(d, OwnName(s)))))

\* Whether the filter of the field of s lets d through.
OwnFilterPasses(s, d) ==
  LET filter == FilterOf(EntryOf(resolvers.map[Subscription], OwnName(s)))
  IN  filter = "none" \/ ApplyFilter(filter, d, variables)

TypeDefsArray == Arr(<<Str(<<" ", "t", " ">>), Str(<<"u">>)>>)

\* A context that already holds a kappa key.
KappaContext == ("kappa" :> "other.kappa") @@ ("headers" :> "h")

\* The context after n links of this configuration have run request() on
\* the operation, one after the other.
RECURSIVE ChainContext(_, _, _, _)
ChainContext(b, ctx, defs, n) ==
  IF n = 0 THEN ctx
  ELSE ChainContext(b, WithKappa(b, WithSchemas(ctx, defs)), defs, n - 1)

InitContext ==
  /\ InitLink(Builds, {FALSE}, {PlainMap}, {Undefined, TypeDefs, TypeDefsArray},
              {doc \in PlainDocuments : Len(doc.fields) = 1} \cup {AnnotatedDocument},
              {EmptyContext, EarlierContext, KappaContext}, BOOLEAN)
  /\ tn = NoTn

NextContext ==
  \/ Request
  \/ BecomeReady

SpecContext == InitContext /\ [][NextContext]_vars

\* context.schemas, [] when there is none.
SchemasOf(ctx) == IF "schemas" \in DOMAIN ctx THEN ctx["schemas"] ELSE <<>>

\* C12: request() only adds to the context: every key is kept, the keys it
\* does not set keep their values, kappa holds the link's view API, and
\* with typeDefs the schemas list is the list before with one entry, of the
\* normalized typeDefs, appended; without typeDefs it is the list before.
\* After n links in a row the list is n entries longer and starts with the
\* list before.
C12_ContextExtended ==
  [][pc = "start" /\ pc' = "requested" =>
       /\ DOMAIN context \subseteq DOMAIN context'
       /\ \A k \in DOMAIN context \ {"schemas", "kappa", "framework"} :
            context'[k] = context[k]
       /\ "kappa" \in DOMAIN context'
       /\ context'["kappa"] = (IF build = "link.js" THEN "this.kappa" ELSE "this._kappa")
       /\ Truthy(typeDefs) =>
            /\ "schemas" \in DOMAIN context'
            /\ context'["schemas"] =
                 Append(SchemasOf(context),
                        [definition |-> IF typeDefs.t = "array" THEN <<"t", "\n", "u">>
                                                                ELSE <<"t">>,
                         directives |-> "directive @kappa on FIELD"])
       /\ ~Truthy(typeDefs) =>
            /\ ("schemas" \in DOMAIN context') = ("schemas" \in DOMAIN context)
            /\ SchemasOf(context') = SchemasOf(context)
       /\ \A n \in 0..MaxChain :
            LET after == SchemasOf(ChainContext(build, context, typeDefs, n))
                before == SchemasOf(context)
            IN  /\ Len(after) = Len(before) + (IF Truthy(typeDefs) THEN n ELSE 0)
                /\ SubSeq(after, 1, Len(before)) = before
                /\ DOMAIN context \subseteq
                     DOMAIN ChainContext(build, context, typeDefs, n)]_vars

\* C12 at work: an operation without @kappa was passed through a link with
\* typeDefs; the context holds the earlier link's schema entry and then this
\* link's, and its other key.
C12_Witness ==
  /\ pc = "requested" /\ NoKappaAnywhere(operation) /\ typeDefs = TypeDefsArray
  /\ "headers" \in DOMAIN context
  /\ Len(context["schemas"]) = 2
  /\ context["schemas"][1] = EarlierContext["schemas"][1]
  /\ context["schemas"][2].definition = <<"t", "\n", "u">>

(***************************************************************************)
(* Further properties of setTypename.                                      *)
(***************************************************************************)
\* The type names of the field names of TnInputs' calls.
TypeNameOf(fieldName) ==
  CASE fieldName = ON_ITEM -> ONITEM_TYPE
    [] fieldName = ITEMS -> <<"I", "t", "e", "m", "s">>
    [] fieldName = ITEM -> ITEM

\* null, a scalar, an object, or an array of objects.
InIdempotenceDomain(data) ==
  data.t = "array" => \A i \in 1..Len(data.e) : data.e[i].t = "object"

\* C13: for null, scalars, objects and arrays of objects, setTypename
\* applied to its own result with the same field name returns that result;
\* and an object without a discriminator gets the field name with its first
\* letter in upper case.
C13_Idempotent ==
  tn.st = "returned" /\ InIdempotenceDomain(tn.data) =>
    /\ tn.ret # Threw
    /\ SetTypenameOf(build, tn.ret, tn.fieldName) = tn.ret
    /\ tn.data.t = "object" /\ ~HasTypename(tn.data) =>
         Get(tn.ret, TYPENAME) = Str(TypeNameOf(tn.fieldName))

\* C13 at work: the call on an array of an object without and an object with
\* a __typename returned another array.
C13_Witness ==
  /\ tn.st = "returned" /\ tn.data.t = "array" /\ Len(tn.data.e) = 2
  /\ ~HasOwn(tn.data.e[1], TYPENAME) /\ tn.data.e[1].t = "object"
  /\ HasTypename(tn.data.e[2])
  /\ tn.ret # tn.data /\ tn.ret # Threw
  /\ tn.fieldName = ON_ITEM

(***************************************************************************)
(* The resolvers factory.                                                  *)
(***************************************************************************)
\* C14: a resolvers factory is called once by a request() whose document
\* holds @kappa and not at all by any other; it has been called before
\* graphql() runs, a resolver is called or a listener is registered, and no
\* subscribe(), readiness callback, resolution or event calls it again.
C14_FactoryOnce ==
  /\ calls.factory =
       IF pc = "requested" /\ resolvers.factory /\ ~NoKappaAnywhere(operation)
         THEN 1 ELSE 0
  /\ (\/ calls.graphql > 0 \/ calls.viewMethod > 0 \/ calls.resolverFunction > 0
      \/ (\E pair \in Pairs : listeners[pair] # <<>>)
      \/ (\E s \in SubIds : subs[s].st # "unused"))
       => (pc = "requested" /\ (resolvers.factory => calls.factory = 1))

\* C14 at work: under a factory, two subscriptions of a query have run to
\* their result and the store has emitted an event.
C14_Witness ==
  /\ resolvers.factory /\ calls.factory = 1
  /\ calls.graphql = 2 /\ calls.viewMethod = 2
  /\ \A s \in 1..2 : subs[s].st = "completed"
  /\ emitted.n > 0

(***************************************************************************)
(* The field resolver on the fields of a selection set: id, with and       *)
(* without the alias a, resolved on parents that hold the alias key, the   *)
(* field key, both or neither, under resolver maps with and without an     *)
(* entry for the field.                                                    *)
(***************************************************************************)
\* The objects items resolves with: the parents of id.
ParentResults ==
  {Record1(ID, Str(X1)),
   Record2(ALIAS, Null, ID, Str(X1)),
   Record1(ALIAS, Num(0)),
   Record2(ALIAS, Str(X2), ID, Str(X1)),
   Record1(TYPENAME, Str(ITEM)),
   EmptyObject}

\* Query.id and Item.id are functions; Query and Item are there without id;
\* Item.id is a plain string and Query is not there; no type is there.
ResolverMaps ==
  {(Query :> (ID :> FunctionEntry)) @@ (ITEM :> (ID :> FunctionEntry)),
   (Query :> (ITEMS :> FunctionEntry)) @@ (ITEM :> (ITEMS :> FunctionEntry)),
   (ITEM :> (ID :> ValueEntry(Str(X2)))),
   EmptyMap}

\* query { items @kappa(view: "items", method: "added") { id  a: id ... } }.
ResolverDocuments ==
  Documents({Str(QUERY)},
            Unaliased(FieldNodes({ITEMS}, {ALIAS}, {Null}, {Kappa("items", "added")}, {0})),
            FieldNodes({ID}, {ID, ALIAS}, {Null}, {NoDirective}, {1}),
            {FALSE})

InitResolver ==
  /\ InitLink({"link.js"}, {FALSE}, ResolverMaps, {Undefined}, ResolverDocuments,
              {EmptyContext}, {TRUE})
  /\ tn = NoTn

NextResolver ==
  \/ Request
  \/ BecomeReady
  \/ \E s \in OneSubscribe : SubscribeQuery(s)
  \/ \E s \in OneSubscribe : ReadyCallbackQuery(s)
  \/ \E s \in OneSubscribe : FieldResolves(s, ParentResults)
  \/ \E s \in OneSubscribe : FieldRejects(s)

SpecResolver == InitResolver /\ [][NextResolver]_vars

\* The calls of the resolver for fields without a directive.
PlainCalls(s) ==
  {key \in TaskKeys :
     /\ key[1] <= Len(operation.fields)
     /\ operation.fields[key[1]].kappa = NoDirective
     /\ subs[s].tasks[key].st # "idle"}

\* rootValue[resultKey] and rootValue[fieldName] of a call.
AliasedNode(s, key) == Get(subs[s].tasks[key].root, operation.fields[key[1]].resultKey)
PreAliasingNode(s, key) == Get(subs[s].tasks[key].root, operation.fields[key[1]].name)

\* C15: a call for a field without a directive whose root value holds the
\* result key or the field name (with any value but undefined) returns the
\* value under the result key when that is defined, and the value under the
\* field name otherwise, without awaiting a resolver-map function.
C15_AliasPrecedence ==
  \A s \in SubIds : \A key \in PlainCalls(s) :
    AliasedNode(s, key) # Undefined \/ PreAliasingNode(s, key) # Undefined =>
      /\ subs[s].tasks[key].st = "done"
      /\ subs[s].tasks[key].resolved = Undefined
      /\ subs[s].tasks[key].value =
           IF AliasedNode(s, key) # Undefined THEN AliasedNode(s, key)
                                              ELSE PreAliasingNode(s, key)

\* resolvers[rootValue.__typename || type][fieldName] of a call; undefined
\* when the type or the field is not there.
MapEntry(s, key) ==
  LET typename == Get(subs[s].tasks[key].root, TYPENAME)
      typeName == IF Truthy(typename) THEN typename.s ELSE result.type
  IN  IF typeName \in DOMAIN resolvers.map
        THEN EntryOf(resolvers.map[typeName], operation.fields[key[1]].name)
        ELSE NoEntry

\* C16: a call for a field without a directive whose root value holds
\* neither the result key nor the field name returns null when the resolver
\* map has no entry for the field (no map of the type, or one without the
\* field); awaits a callable entry and returns setTypename of what it
\* resolved with; and returns a plain-value entry as it is.  Only such a
\* call awaits a callable entry.
C16_Fallback ==
  \A s \in SubIds : \A key \in PlainCalls(s) :
    LET task == subs[s].tasks[key]
        entry == MapEntry(s, key)
        neither == AliasedNode(s, key) = Undefined /\ PreAliasingNode(s, key) = Undefined
    IN  /\ neither /\ entry = NoEntry => task.st = "done" /\ task.value = Null
        /\ neither /\ entry.k = "function" =>
             /\ task.st \in {"function", "done", "rejected"}
             /\ task.st = "done" =>
                  task.value = setTypename(task.resolved, operation.fields[key[1]].name)
        /\ neither /\ entry.k = "value" => task.st = "done" /\ task.value = entry.v
        /\ task.st = "function" \/ task.resolved # Undefined =>
             neither /\ entry.k = "function"

\* runSubscription was entered for a document in which no Field node
\* carries @kappa: the directive is on a node that is no field.
EnteredWithoutField ==
  /\ pc = "requested"
  /\ OperationType(operation) = Subscription
  /\ operation.kappaOnNonField
  /\ FirstKappaField(operation) = 0

\* C17: when runSubscription is entered for an operation whose @kappa is
\* only on a node that is no field, the link does not throw, with forward
\* and without it: it returns what forward returns (undefined without
\* forward), makes no subscription handle and registers no listener.
C17_DelegatesWithoutField ==
  EnteredWithoutField =>
    /\ result # Threw
    /\ result = IF forward THEN ForwardObservable ELSE Undefined
    /\ calls.forward = IF forward THEN 1 ELSE 0
    /\ \A pair \in Pairs : listeners[pair] = <<>>
    /\ \A s \in SubIds : subs[s] = NewSub

\* The own fields of an element other than the discriminator.
FieldsOf(item) == IF item.t = "object" THEN DOMAIN item.f \ {TYPENAME} ELSE {}

ExtendsByAtMostOne(log, later) ==
  /\ Len(later) \in {Len(log), Len(log) + 1}
  /\ SubSeq(later, 1, Len(log)) = log

\* C19: the observer of a subscription whose field carries
\* @kappa(view, event) is only ever told next, never complete or error,
\* whatever events, filter outcomes and unsubscribe calls there are; and
\* what it is told comes in the order of the events: a step never changes
\* or removes what was told before, and what it adds, after all the rest,
\* is the emission of the event just fired, which passed the filter.
C19_OnlyNextInOrder ==
  /\ [](IsKappaHandle =>
          \A s \in SubIds : \A n \in 1..Len(subs[s].log) : subs[s].log[n].k = "next")
  /\ [][IsKappaHandle =>
          \A s \in SubIds :
            /\ ExtendsByAtMostOne(subs[s].log, subs'[s].log)
            /\ Len(subs'[s].log) > Len(subs[s].log) =>
                 /\ emitted'.n = emitted.n + 1
                 /\ Passes(emitted'.data)
                 /\ subs'[s].log[Len(subs'[s].log)] = Emission(emitted'.data)]_vars

\* C19 at work: two events of different payloads passed the filter of a
\* bound subscription, whose observer was told of the first and then of the
\* second; another subscription was unsubscribed after the first event.
C19_Witness ==
  \E s, r \in SubIds :
    /\ IsKappaHandle /\ result.resolver.filter = "accept"
    /\ subs[s].log = <<Emission(Record1(ID, Str(X1))),
                       Emission(Record2(ID, Str(X2), TYPENAME, Str(ITEM)))>>
    /\ subs[r].unsubscribed = "once" /\ Len(subs[r].log) = 1

(***************************************************************************)
(* The listeners of a bound subscription.                                  *)
(***************************************************************************)
\* unsubscribe() has been called since the readiness callback ran.
Unbound(s) == subs[s].unsubscribed \in {"once", "again"}

\* C20: a subscribe() on a bound handle has at most one listener
\* registered at any time, registered by its readiness callback and by no
\* other step, and never a second time; unsubscribe() registers none; and
\* once unsubscribe() was called after the callback ran, the subscription
\* stays so, its listener is not registered and no event reaches its
\* observer.
C20_ListenerAccounting ==
  /\ [](IsKappaHandle =>
          \A s \in SubIds :
            /\ Registrations(s) <= 1
            /\ Unbound(s) => Registrations(s) = 0)
  /\ [][IsKappaHandle =>
          \A s \in SubIds :
            /\ Registrations(s)' > Registrations(s) =>
                 /\ kappaReady /\ subs[s].st = "awaiting" /\ subs'[s].st = "active"
                 /\ Registrations(s) = 0
                 /\ \A r \in SubIds : subs'[r].unsubscribed = subs[r].unsubscribed
            /\ subs[s].st = "active" =>
                 subs'[s].st = "active" /\ Registrations(s)' <= Registrations(s)
            /\ Unbound(s) => Unbound(s)' /\ subs'[s].log = subs[s].log]_vars

\* C20 at work: a subscription was told of the first event and unsubscribed;
\* the second event, which passes the filter, reached the other subscription
\* only.
C20_Witness ==
  \E s, r \in SubIds :
    /\ IsKappaHandle /\ Unbound(s)
    /\ emitted.n = 2 /\ emitted.pair = BoundPair /\ Passes(emitted.data)
    /\ Len(subs[s].log) = 1 /\ Len(subs[r].log) = 2
    /\ Registrations(s) = 0 /\ Registrations(r) = 1

====
